---------------------------- MODULE Spec2Model ----------------------------
(***************************************************************************)
(* A model of training_geobench_brick.py: the script that builds the       *)
(* train/valid/test dataframes of the m-brick-kiln dataset, computes the   *)
(* band statistics of the training split, derives the class weights and    *)
(* trains an MSI embedder in front of a frozen CLIP model with Lightning.  *)
(*                                                                         *)
(* Image ids are modelled as small integers, a raster file as the ordered  *)
(* list of its bands (name and pixel values) with the position at which    *)
(* reading it fails, and real numbers as exact fractions <<num, den>>.     *)
(***************************************************************************)
EXTENDS Integers, Sequences, FiniteSets, TLC

(***************************************************************************)
(* Program constants                                                       *)
(***************************************************************************)
data_path == "../m-brick-kiln/"
batch_size == 32
brickkiln_labels == <<"not brick kiln", "brick kiln">>
n_bands == 13
\* main: the reference list of band names handed to compute_band_stats
bands == <<"01 - Coastal aerosol", "02 - Blue", "03 - Green", "04 - Red",
           "05 - Vegetation Red Edge", "06 - Vegetation Red Edge",
           "07 - Vegetation Red Edge", "08 - NIR", "08A - Vegetation Red Edge",
           "09 - Water vapour", "10 - SWIR - Cirrus", "11 - SWIR", "12 - SWIR">>
label2idx == [l \in {"not brick kiln", "brick kiln"} |->
                 IF l = "not brick kiln" THEN 0 ELSE 1]

\* Python's None, as the label of a record whose id is in no label-map list.
None == "None"

(***************************************************************************)
(* Bounds of the model                                                     *)
(***************************************************************************)
\* the image ids of the dataset, and the two of them the manifest, statistics
\* and class-weight specifications draw their lists from
ImageIds == {1, 2, 3}
SmallIds == {1, 2}
\* the longest id list of a split in the manifest
MaxLen == 2
\* the most pixels of one band of a raster file
MaxPixels == 2

VARIABLES
    pc,                 \* position of main()
    error,              \* the exception that ended the run, or NoError
    argv,               \* the command line: [model, max_epochs]
    args,               \* the parsed command line
    fs,                 \* the files on disk: [partition, label_map, raster]
    opened,             \* the files opened so far: [json, raster]
    def_partition,      \* json.load of default_partition.json
    label_map,          \* json.load of label_map.json
    image_to_label_map, \* the reversed label map
    test_df, val_df, train_df,
    cbs,                \* the frame of the running compute_band_stats call
    stats_calls,        \* how many times compute_band_stats was called
    band_stats,         \* the dataframe compute_band_stats returned
    stats_dict,         \* band name -> [mean, std]
    data_module,        \* the GEOBenchMSIDataModule
    class_counts,       \* train_df['label'].value_counts(), most frequent first
    total,              \* sum(class_counts)
    class_weights,      \* the dict of class weights, in insertion order
    weights_tensor,     \* the tensor handed to the model
    model,              \* the LightningModule: its parameters and buffers
    checkpoint_callback,\* the ModelCheckpoint callback and what it saved
    trainer,            \* the Trainer: what it runs and where it is
    history             \* what the run did so far (for the properties)

inputVars == <<argv, fs>>
frameVars == <<def_partition, label_map, image_to_label_map,
               test_df, val_df, train_df>>
statsVars == <<cbs, stats_calls, band_stats, stats_dict>>
weightVars == <<class_counts, total, class_weights, weights_tensor>>

trainVars == <<model, checkpoint_callback, trainer, history>>
laterVars == <<data_module, weightVars, trainVars>>

vars == <<pc, error, args, opened, inputVars, frameVars, statsVars, laterVars>>

(***************************************************************************)
(* Helpers on sequences and exact fractions                                *)
(***************************************************************************)
SeqsUpTo(S, n) == UNION {[1..k -> S] : k \in 0..n}

Range(s) == {s[i] : i \in DOMAIN s}

IsSortedStrict(s) == \A i \in 1..(Len(s) - 1) : s[i] < s[i + 1]

RECURSIVE SumSeq(_)
SumSeq(s) == IF s = <<>> THEN 0 ELSE Head(s) + SumSeq(Tail(s))

Abs(x) == IF x < 0 THEN -x ELSE x

RECURSIVE GCD(_, _)
GCD(a, b) == IF b = 0 THEN a ELSE GCD(b, a % b)

\* The number n/d in lowest terms. A zero denominator is what numpy returns
\* for a division by zero: <<0, 0>> is nan, <<1, 0>> is inf.
Frac(n, d) ==
    IF d = 0 THEN <<IF n = 0 THEN 0 ELSE IF n > 0 THEN 1 ELSE -1, 0>>
    ELSE LET g == GCD(Abs(n), Abs(d))
             sgn == IF d < 0 THEN -1 ELSE 1
         IN <<sgn * (n \div g), sgn * (d \div g)>>

FracAdd(a, b) == Frac(a[1] * b[2] + b[1] * a[2], a[2] * b[2])
FracMul(a, b) == Frac(a[1] * b[1], a[2] * b[2])
FracDiv(a, b) == Frac(a[1] * b[2], a[2] * b[1])

\* np.sqrt of a fraction, kept symbolic
Sqrt(x) == [sqrt |-> x]

(***************************************************************************)
(* The reversed label map (main, "Reverse the label map")                  *)
(***************************************************************************)
\* The inner loop over one label's image list: only the labels '0' and '1'
\* write an entry, a later write of the same id overwrites the earlier one.
RECURSIVE InvertImages(_, _, _)
InvertImages(m, label, image_list) ==
    IF image_list = <<>> THEN m
    ELSE LET img_id == Head(image_list)
             m1 == IF label = "0"
                      THEN [x \in DOMAIN m \cup {img_id} |->
                               IF x = img_id THEN brickkiln_labels[1] ELSE m[x]]
                   ELSE IF label = "1"
                      THEN [x \in DOMAIN m \cup {img_id} |->
                               IF x = img_id THEN brickkiln_labels[2] ELSE m[x]]
                   ELSE m
         IN InvertImages(m1, label, Tail(image_list))

\* The outer loop over label_map.items(), in the order of the JSON object.
RECURSIVE InvertLabelMap(_, _)
InvertLabelMap(m, items) ==
    IF items = <<>> THEN m
    ELSE InvertLabelMap(InvertImages(m, Head(items).label, Head(items).images),
                        Tail(items))

(***************************************************************************)
(* One dataframe (main, "Building TEST / VALIDATION / TRAIN dataframe")    *)
(***************************************************************************)
Filename(img_id) == [dir |-> data_path, file |-> img_id]

\* image_to_label_map.get(img_id, None)
GetLabel(m, img_id) == IF img_id \in DOMAIN m THEN m[img_id] ELSE None

BuildRecords_dropna(partition, m, split) ==
    SelectSeq([i \in 1..Len(partition[split]) |->
                  [image_id |-> partition[split][i],
                   filename |-> Filename(partition[split][i]),
                   bands    |-> n_bands,
                   split    |-> split,
                   label    |-> GetLabel(m, partition[split][i])]],
              LAMBDA r : r.label # None)

BuildRecords(partition, m, split) ==
    [i \in 1..Len(partition[split]) |->
        [image_id |-> partition[split][i],
         filename |-> Filename(partition[split][i]),
         bands    |-> n_bands,
         split    |-> split,
         label    |-> GetLabel(m, partition[split][i])]]

(***************************************************************************)
(* compute_band_stats                                                      *)
(***************************************************************************)
SumSq(px) == SumSeq([k \in DOMAIN px |-> px[k] * px[k]])

\* The body of "for i, b in enumerate(f.keys())" from the band at position i
\* (1-based) on. Reading the band at file.fail_at raises; so does indexing
\* the accumulators past their length. What the earlier bands of the file
\* added stays added.
RECURSIVE ReadBands(_, _, _)
ReadBands(acc, file, i) ==
    IF i > Len(file.bands) THEN [acc |-> acc, raised |-> FALSE]
    ELSE IF file.fail_at = i THEN [acc |-> acc, raised |-> TRUE]
    ELSE IF i > Len(acc.band_sum) THEN [acc |-> acc, raised |-> TRUE]
    ELSE LET px == file.bands[i].px
         IN ReadBands(
                [band_sum |-> [acc.band_sum EXCEPT ![i] = @ + SumSeq(px)],
                 band_sq_sum |-> [acc.band_sq_sum EXCEPT ![i] = @ + SumSq(px)],
                 band_pixel_counts |->
                     [acc.band_pixel_counts EXCEPT ![i] = @ + Len(px)]],
                file, i + 1)

\* The try block for one file: fail_at = 0 is a file h5py.File cannot open.
ReadFile(acc, file) ==
    IF file.fail_at = 0 THEN [acc |-> acc, raised |-> TRUE]
    ELSE ReadBands(acc, file, 1)

\* band_sum / band_pixel_counts
BandMeans(acc) ==
    [i \in DOMAIN acc.band_sum |->
        Frac(acc.band_sum[i], acc.band_pixel_counts[i])]

\* sqrt(band_sq_sum / band_pixel_counts - square(band_means))
BandStds(acc) ==
    [i \in DOMAIN acc.band_sum |->
        LET mean == Frac(acc.band_sum[i], acc.band_pixel_counts[i])
            ex2  == Frac(acc.band_sq_sum[i], acc.band_pixel_counts[i])
        IN Sqrt(FracAdd(ex2, FracMul(<<-1, 1>>, FracMul(mean, mean))))]

\* The returned pd.DataFrame, as its columns.
BandStatsFrame(names, acc) ==
    [Band   |-> names,
     Mean   |-> BandMeans(acc),
     Std    |-> BandStds(acc),
     Pixels |-> acc.band_pixel_counts]

\* main: stats_dict, one entry per row of band_stats
StatsDict(frame) ==
    [name \in Range(frame.Band) |->
        LET i == CHOOSE j \in DOMAIN frame.Band :
                    /\ frame.Band[j] = name
                    /\ \A k \in DOMAIN frame.Band :
                          frame.Band[k] = name => k <= j
        IN [mean |-> frame.Mean[i], std |-> frame.Std[i]]]

(***************************************************************************)
(* Inputs: the command line and the files on disk                          *)
(***************************************************************************)
\* --model is absent from the command line
NoArg == -1

ModelArgs == {NoArg, 1, 2, 3}

IdLists == SeqsUpTo(SmallIds, MaxLen)

\* A label-map list matters only as a set: one sorted list stands for each.
IdSets == {s \in SeqsUpTo(SmallIds, Cardinality(SmallIds)) : IsSortedStrict(s)}

Partitions == [train : IdLists, valid : IdLists, test : IdLists]

\* The JSON object of label_map.json, its keys '0' and '1' in either order.
LabelMaps ==
    {<<[label |-> "0", images |-> a], [label |-> "1", images |-> b]>> :
        a \in IdSets, b \in IdSets}
    \cup
    {<<[label |-> "1", images |-> b], [label |-> "0", images |-> a]>> :
        a \in IdSets, b \in IdSets}

\* A raster file never fails when fail_at is past its last band.
NoFailure == n_bands + 1

\* A file of n_bands bands named as the reference list, each of `size`
\* pixels, whose read fails at position fail_at (0: the open fails).
Raster(size, fail_at) ==
    [bands   |-> [i \in 1..n_bands |->
                     [name |-> bands[i], px |-> [k \in 1..size |-> i + k]]],
     fail_at |-> fail_at]

FailPoints == {0, 2, NoFailure}

RasterFiles == {Raster(size, f) : size \in 1..MaxPixels, f \in FailPoints}

\* every file readable, image i with bands of ((i - 1) % MaxPixels) + 1 pixels
GoodDisk == [id \in ImageIds |-> Raster(((id - 1) % MaxPixels) + 1, NoFailure)]

\* every choice of the files of the small ids
Disks == {[id \in ImageIds |-> IF id \in SmallIds THEN d[id] ELSE GoodDisk[id]] :
             d \in [SmallIds -> RasterFiles]}

\* the good disk, and the good disk with one file that fails
MainDisks ==
    {GoodDisk} \cup
    {[GoodDisk EXCEPT ![id] = [@ EXCEPT !.fail_at = f]] :
        id \in ImageIds, f \in FailPoints}

NoError == "none"
NotLoaded == <<>>
NoFrame == [df |-> <<>>, next |-> 0, band_sum |-> <<>>, band_sq_sum |-> <<>>,
            band_pixel_counts |-> <<>>, printed |-> <<>>]

(***************************************************************************)
(* main: argument parsing                                                  *)
(***************************************************************************)
ModelChoices_any == ModelArgs

\* add_argument('--model', type=int, choices=[1, 2], required=True)
ModelChoices == {1, 2}

\* parse_args: a --model outside the choices, or none, ends the process with
\* a usage error (exit status 2) here.
ParseArgs ==
    /\ pc = "parse_args"
    /\ IF argv.model \in ModelChoices
          THEN /\ args' = argv
               /\ pc' = "read_partition"
               /\ error' = error
          ELSE /\ args' = args
               /\ pc' = "exit"
               /\ error' = "SystemExit: usage error"
    /\ UNCHANGED <<opened, inputVars, frameVars, statsVars, laterVars>>

(***************************************************************************)
(* main: the split manifest, the label map and the three dataframes        *)
(***************************************************************************)
ReadPartition ==
    /\ pc = "read_partition"
    /\ def_partition' = fs.partition
    /\ opened' = [opened EXCEPT !.json = @ \cup {"default_partition.json"}]
    /\ pc' = "read_label_map"
    /\ UNCHANGED <<error, args, inputVars, label_map, image_to_label_map,
                   test_df, val_df, train_df, statsVars, laterVars>>

ReadLabelMap ==
    /\ pc = "read_label_map"
    /\ label_map' = fs.label_map
    /\ opened' = [opened EXCEPT !.json = @ \cup {"label_map.json"}]
    /\ pc' = "reverse_label_map"
    /\ UNCHANGED <<error, args, inputVars, def_partition, image_to_label_map,
                   test_df, val_df, train_df, statsVars, laterVars>>

ReverseLabelMap ==
    /\ pc = "reverse_label_map"
    /\ image_to_label_map' = InvertLabelMap(<<>>, label_map)
    /\ pc' = "build_test"
    /\ UNCHANGED <<error, args, opened, inputVars, def_partition, label_map,
                   test_df, val_df, train_df, statsVars, laterVars>>

BuildTest ==
    /\ pc = "build_test"
    /\ test_df' = BuildRecords(def_partition, image_to_label_map, "test")
    /\ pc' = "build_valid"
    /\ UNCHANGED <<error, args, opened, inputVars, def_partition, label_map,
                   image_to_label_map, val_df, train_df, statsVars, laterVars>>

BuildValid ==
    /\ pc = "build_valid"
    /\ val_df' = BuildRecords(def_partition, image_to_label_map, "valid")
    /\ pc' = "build_train"
    /\ UNCHANGED <<error, args, opened, inputVars, def_partition, label_map,
                   image_to_label_map, test_df, train_df, statsVars, laterVars>>

BuildTrain ==
    /\ pc = "build_train"
    /\ train_df' = BuildRecords(def_partition, image_to_label_map, "train")
    /\ pc' = "band_stats"
    /\ UNCHANGED <<error, args, opened, inputVars, def_partition, label_map,
                   image_to_label_map, test_df, val_df, statsVars, laterVars>>

(***************************************************************************)
(* main: band_stats = compute_band_stats(train_df, bands), file by file    *)
(***************************************************************************)
StatsFrame_all == train_df \o val_df \o test_df

\* the dataframe main hands to compute_band_stats
StatsFrame == train_df

\* The call: the accumulators start at zero, one entry per reference band.
BandStatsCall ==
    /\ pc = "band_stats"
    /\ cbs' = [df |-> StatsFrame, next |-> 1,
               band_sum |-> [i \in 1..Len(bands) |-> 0],
               band_sq_sum |-> [i \in 1..Len(bands) |-> 0],
               band_pixel_counts |-> [i \in 1..Len(bands) |-> 0],
               printed |-> <<>>]
    /\ stats_calls' = stats_calls + 1
    /\ pc' = "stats_loop"
    /\ UNCHANGED <<error, args, opened, inputVars, frameVars,
                   band_stats, stats_dict, laterVars>>

\* One iteration of "for filename in df['filename']": the try block, and on
\* an exception the except block, which prints and goes on.
BandStatsFile ==
    /\ pc = "stats_loop"
    /\ cbs.next <= Len(cbs.df)
    /\ LET filename == cbs.df[cbs.next].filename
           r == ReadFile([band_sum |-> cbs.band_sum,
                          band_sq_sum |-> cbs.band_sq_sum,
                          band_pixel_counts |-> cbs.band_pixel_counts],
                         fs.raster[filename.file])
       IN /\ cbs' = [cbs EXCEPT
                        !.next = @ + 1,
                        !.band_sum = r.acc.band_sum,
                        !.band_sq_sum = r.acc.band_sq_sum,
                        !.band_pixel_counts = r.acc.band_pixel_counts,
                        !.printed = IF r.raised THEN Append(@, filename) ELSE @]
          /\ opened' = [opened EXCEPT
                           !.raster = @ \cup {[by |-> "compute_band_stats",
                                               file |-> filename.file]}]
    /\ UNCHANGED <<pc, error, args, inputVars, frameVars,
                   stats_calls, band_stats, stats_dict, laterVars>>

\* After the loop: the means, the stds and the returned dataframe.
BandStatsReturn ==
    /\ pc = "stats_loop"
    /\ cbs.next > Len(cbs.df)
    /\ band_stats' = BandStatsFrame(bands, cbs)
    /\ pc' = "stats_dict"
    /\ UNCHANGED <<error, args, opened, inputVars, frameVars,
                   cbs, stats_calls, stats_dict, laterVars>>

MakeStatsDict ==
    /\ pc = "stats_dict"
    /\ stats_dict' = StatsDict(band_stats)
    /\ pc' = "data_module"
    /\ UNCHANGED <<error, args, opened, inputVars, frameVars,
                   cbs, stats_calls, band_stats, laterVars>>

(***************************************************************************)
(* main: the data module and the class weights                             *)
(***************************************************************************)
\* GEOBenchMSIDataModule.__init__: the datasets exist only after setup().
MakeDataModule ==
    /\ pc = "data_module"
    /\ data_module' = [train_df |-> train_df, val_df |-> val_df,
                       test_df |-> test_df, band_stats |-> stats_dict,
                       batch_size |-> batch_size,
                       train_dataset |-> NotLoaded,
                       val_dataset |-> NotLoaded,
                       test_dataset |-> NotLoaded]
    /\ pc' = "class_counts"
    /\ UNCHANGED <<error, args, opened, inputVars, frameVars, statsVars,
                   weightVars, trainVars>>

CountLabel(df, l) == Cardinality({i \in 1..Len(df) : df[i].label = l})

\* Series.value_counts(): the labels that occur (None is not counted), the
\* most frequent first; labels of equal count come in either order.
ValueCounts(df) ==
    LET present == {l \in Range(brickkiln_labels) : CountLabel(df, l) > 0}
        orders == {s \in [1..Cardinality(present) -> present] :
                     /\ \A i, j \in DOMAIN s : i # j => s[i] # s[j]
                     /\ \A i, j \in DOMAIN s :
                           i < j => CountLabel(df, s[i]) >= CountLabel(df, s[j])}
    IN {[i \in DOMAIN s |-> [label |-> s[i], count |-> CountLabel(df, s[i])]] :
           s \in orders}

\* A dict as the sequence of its items [k, v], in insertion order.
HasKey(d, k) == \E i \in DOMAIN d : d[i].k = k
Lookup(d, k) == d[CHOOSE i \in DOMAIN d : d[i].k = k].v

\* {label2idx[label]: total / count for label, count in class_counts.items()}
RawWeights(counts, tot) ==
    [i \in DOMAIN counts |->
        [k |-> label2idx[counts[i].label], v |-> Frac(tot, counts[i].count)]]

RECURSIVE FracSum(_)
FracSum(s) == IF s = <<>> THEN <<0, 1>> ELSE FracAdd(Head(s), FracSum(Tail(s)))

\* {k: v / norm_factor for k, v in class_weights.items()}
NormalizedWeights(cw) ==
    LET norm_factor == FracSum([i \in DOMAIN cw |-> cw[i].v])
    IN [i \in DOMAIN cw |-> [k |-> cw[i].k, v |-> FracDiv(cw[i].v, norm_factor)]]

TensorFromWeights_values(cw) == [i \in DOMAIN cw |-> cw[i].v]

\* [class_weights[i] for i in range(len(class_weights))]
TensorFromWeights(cw) == [i \in DOMAIN cw |-> Lookup(cw, i - 1)]

ClassCounts ==
    /\ pc = "class_counts"
    /\ \E cc \in ValueCounts(train_df) :
          /\ class_counts' = cc
          /\ total' = SumSeq([i \in DOMAIN cc |-> cc[i].count])
    /\ pc' = "raw_weights"
    /\ UNCHANGED <<error, args, opened, inputVars, frameVars, statsVars,
                   data_module, class_weights, weights_tensor, trainVars>>

ComputeRawWeights ==
    /\ pc = "raw_weights"
    /\ class_weights' = RawWeights(class_counts, total)
    /\ pc' = "normalize_weights"
    /\ UNCHANGED <<error, args, opened, inputVars, frameVars, statsVars,
                   data_module, class_counts, total, weights_tensor, trainVars>>

NormalizeWeights ==
    /\ pc = "normalize_weights"
    /\ class_weights' = NormalizedWeights(class_weights)
    /\ pc' = "weights_tensor"
    /\ UNCHANGED <<error, args, opened, inputVars, frameVars, statsVars,
                   data_module, class_counts, total, weights_tensor, trainVars>>

\* The list comprehension looks the keys 0..len-1 up: when only the label of
\* index 1 occurs, class_weights[0] raises KeyError.
MakeWeightsTensor ==
    /\ pc = "weights_tensor"
    /\ IF \A i \in DOMAIN class_weights : HasKey(class_weights, i - 1)
          THEN /\ weights_tensor' = TensorFromWeights(class_weights)
               /\ pc' = "create_model"
               /\ error' = error
          ELSE /\ weights_tensor' = weights_tensor
               /\ pc' = "exit"
               /\ error' = "KeyError"
    /\ UNCHANGED <<args, opened, inputVars, frameVars, statsVars,
                   data_module, class_counts, total, class_weights, trainVars>>

(***************************************************************************)
(* GEOBenchMSIDataset and GEOBenchMSIDataModule                            *)
(***************************************************************************)
\* (band - stats["mean"]) / stats["std"], kept symbolic pixel by pixel
Normalize(px, stats) ==
    [k \in DOMAIN px |-> [x |-> px[k], mean |-> stats.mean, std |-> stats.std]]

\* The loop over f.keys() of __getitem__ from position i on: the band is
\* read, its statistics are looked up by the name the file gives the band,
\* and the normalized band is appended.
RECURSIVE GetBands(_, _, _, _)
GetBands(file, stats, i, got) ==
    IF i > Len(file.bands) THEN [raised |-> NoError, bands |-> got]
    ELSE IF file.fail_at = i THEN [raised |-> "OSError", bands |-> got]
    ELSE IF file.bands[i].name \notin DOMAIN stats
            THEN [raised |-> "KeyError", bands |-> got]
    ELSE GetBands(file, stats, i + 1,
                  Append(got, Normalize(file.bands[i].px,
                                        stats[file.bands[i].name])))

\* GEOBenchMSIDataset.__getitem__(idx), idx counted from 1: the label is
\* converted first, with label2idx[...], and only then is the file opened.
GetItem(ds, idx) ==
    LET rec == ds.df[idx]
    IN IF rec.label \notin DOMAIN label2idx
          THEN [raised |-> "KeyError", opened |-> FALSE, returned |-> FALSE,
                label |-> rec.label, file |-> rec.filename.file]
       ELSE LET file == fs.raster[rec.filename.file]
                r == IF file.fail_at = 0
                        THEN [raised |-> "OSError", bands |-> <<>>]
                        ELSE GetBands(file, ds.band_stats, 1, <<>>)
            IN [raised |-> r.raised, opened |-> TRUE,
                returned |-> r.raised = NoError,
                label |-> rec.label, file |-> rec.filename.file,
                item |-> [img |-> r.bands, label |-> label2idx[rec.label]]]

\* The items of one batch, fetched in order up to the first that raises.
RECURSIVE Fetch(_, _, _)
Fetch(ds, idxs, got) ==
    IF idxs = <<>>
       THEN [raised |-> NoError, items |-> got, last |-> NotLoaded,
             files |-> {got[i].file : i \in DOMAIN got}]
    ELSE LET r == GetItem(ds, Head(idxs))
         IN IF r.raised # NoError
               THEN [raised |-> r.raised, items |-> got, last |-> r,
                     files |-> {got[i].file : i \in DOMAIN got}
                               \cup (IF r.opened THEN {r.file} ELSE {})]
            ELSE Fetch(ds, Tail(idxs), Append(got, r))

\* len(DataLoader): batches of batch_size items, the last one may be short.
NumBatches(n) == (n + batch_size - 1) \div batch_size

Min(a, b) == IF a < b THEN a ELSE b

\* The indices of batch k of a pass that visits the dataset in `order`.
BatchIndices(order, k) ==
    SubSeq(order, (k - 1) * batch_size + 1, Min(k * batch_size, Len(order)))

Identity(n) == [i \in 1..n |-> i]

\* shuffle=True: any order of the indices
Shuffles(n) == {p \in [1..n -> 1..n] : \A i, j \in 1..n : i # j => p[i] # p[j]}

\* GEOBenchMSIDataset(dataframe, label2idx, band_stats), built in setup()
\* with the data module's band_stats
Dataset(df) == [df |-> df, band_stats |-> data_module.band_stats]

\* GEOBenchMSIDataModule.setup: Lightning calls it at the start of every
\* fit, validate and test run.
Setup(dm) ==
    [dm EXCEPT !.train_dataset = Dataset(dm.train_df),
               !.val_dataset   = Dataset(dm.val_df),
               !.test_dataset  = Dataset(dm.test_df)]

(***************************************************************************)
(* CLIPWithMSIEmbedder1 / CLIPWithMSIEmbedder2: parameters and steps       *)
(***************************************************************************)
class_names == <<"not brick kiln", "brick kiln">>

\* the freshly initialised MSIEmbedder: how many optimizer updates its
\* parameters have had, and whether they are all finite
InitEmbedder == [updates |-> 0, finite |-> TRUE]

\* clip.load("ViT-B/32"), every parameter with requires_grad = False
FrozenCLIP == [weights |-> "ViT-B/32", updates |-> 0, requires_grad |-> FALSE]

\* the normalized text embeddings of the prompts, computed in __init__
TextFeatures(names) ==
    [i \in DOMAIN names |->
        [prompt |-> <<"a satellite photo of", names[i]>>, unit_norm |-> TRUE]]

NewModel(variant) ==
    [variant       |-> variant,
     in_channels   |-> n_bands,
     class_weights |-> weights_tensor,
     clip_model    |-> FrozenCLIP,
     embedder      |-> InitEmbedder,
     text_features |-> TextFeatures(class_names)]

\* configure_optimizers: Adam over self.embedder.parameters() only
OptimizerParams == {"embedder"}

\* training_step followed by Lightning's backward and optimizer.step(): a
\* parameter moves when the optimizer holds it and it has a gradient. Nothing
\* in the step looks at whether the loss is finite; a non-finite loss leaves
\* non-finite parameters behind.
TrainingUpdate(m, loss) ==
    [m EXCEPT
        !.embedder = IF "embedder" \in OptimizerParams
                        THEN [updates |-> @.updates + 1,
                              finite  |-> @.finite /\ loss = "finite"]
                        ELSE @,
        !.clip_model = IF "clip_model" \in OptimizerParams /\ @.requires_grad
                          THEN [@ EXCEPT !.updates = @ + 1]
                          ELSE @]

validation_step_updating(m) == TrainingUpdate(m, "finite")

\* validation_step and test_step: the loss and the accuracy are logged, no
\* loss is returned and no parameter is touched.
validation_step(m) == m

LossValues == {"finite", "nan", "inf"}

\* F.cross_entropy(logits, y, weight=weights) needs one weight per class
WeightsFit(m) == Len(m.class_weights) = Len(class_names)

\* the validation accuracies an epoch can log, in percent
AccValues == {65, 70, 75, 80}

(***************************************************************************)
(* main: the model, the checkpoint callback and the trainer                *)
(***************************************************************************)
NoCheckpoint == [epoch |-> -1]

\* ModelCheckpoint(save_top_k=1, monitor="val_acc", mode="max",
\* save_last=True)
NewCheckpointCallback ==
    [monitor |-> "val_acc", mode |-> "max", save_top_k |-> 1,
     save_last |-> TRUE,
     best_model_score |-> -1, best_model |-> NoCheckpoint,
     last_model |-> NoCheckpoint]

\* if args.model == 1 ... elif args.model == 2 ... else raise ValueError
CreateModel ==
    /\ pc = "create_model"
    /\ IF args.model \in {1, 2}
          THEN /\ model' = NewModel(args.model)
               /\ checkpoint_callback' = NewCheckpointCallback
               /\ pc' = "trainer"
               /\ error' = error
          ELSE /\ UNCHANGED <<model, checkpoint_callback>>
               /\ pc' = "exit"
               /\ error' = "ValueError"
    /\ UNCHANGED <<args, opened, inputVars, frameVars, statsVars,
                   data_module, weightVars, trainer, history>>

NewHistory ==
    [started |-> <<>>, ended |-> <<>>, val_accs |-> <<>>,
     epoch_states |-> <<>>, train_epochs |-> 0, first_bad |-> 0,
     lookup |-> NotLoaded]

\* L.Trainer(max_epochs=max_epochs, callbacks=[checkpoint_callback], ...)
MakeTrainer ==
    /\ pc = "trainer"
    /\ trainer' = [max_epochs |-> args.max_epochs, fn |-> "none",
                   sanity_checking |-> FALSE, current_epoch |-> 0,
                   global_step |-> 0, batch_idx |-> 0, order |-> <<>>,
                   batch |-> <<>>]
    /\ history' = NewHistory
    /\ pc' = "fit"
    /\ UNCHANGED <<error, args, opened, inputVars, frameVars, statsVars,
                   data_module, weightVars, model, checkpoint_callback>>

(***************************************************************************)
(* trainer.fit, trainer.validate, trainer.test                             *)
(***************************************************************************)
AfterStage_test_first(stage) ==
    CASE stage = "fit" -> "test"
      [] stage = "test" -> "validate"
      [] stage = "validate" -> "done"

\* main: trainer.fit(...); trainer.validate(...); trainer.test(...)
AfterStage(stage) ==
    CASE stage = "fit" -> "validate"
      [] stage = "validate" -> "test"
      [] stage = "test" -> "done"

\* One evaluation batch (validation or test): the items are fetched and the
\* step is run. The result is the exception raised, or NoError.
EvalBatch(ds, k) ==
    LET f == Fetch(ds, BatchIndices(Identity(Len(ds.df)), k), <<>>)
    IN [raised |-> IF f.raised # NoError THEN f.raised
                   ELSE IF ~WeightsFit(model) THEN "RuntimeError"
                   ELSE NoError,
        fetch |-> f]

Reads(files) == {[by |-> "__getitem__", file |-> x] : x \in files}

NoteLookup(h, f) ==
    IF f.last # NotLoaded /\ f.last.label \notin DOMAIN label2idx
       THEN [h EXCEPT !.lookup = f.last]
       ELSE h

\* trainer.fit begins: setup("fit"), then the sanity check, which runs the
\* first two validation batches before any training.
FitStart ==
    /\ pc = "fit"
    /\ data_module' = Setup(data_module)
    /\ history' = [history EXCEPT !.started = Append(@, "fit")]
    /\ trainer' = [trainer EXCEPT !.fn = "fit", !.sanity_checking = TRUE,
                                  !.batch_idx = 1]
    /\ pc' = "val_batch"
    /\ UNCHANGED <<error, args, opened, inputVars, frameVars, statsVars,
                   weightVars, model, checkpoint_callback>>

\* The validation batches to run: two in the sanity check, all otherwise.
ValLimit ==
    IF trainer.sanity_checking
       THEN Min(2, NumBatches(Len(data_module.val_dataset.df)))
       ELSE NumBatches(Len(data_module.val_dataset.df))

\* One validation batch, in the sanity check, after a training epoch or in
\* trainer.validate. After the last batch: the sanity check goes on to the
\* first epoch, an epoch's validation to its end-of-validation hooks, and
\* trainer.validate returns.
ValBatch ==
    /\ pc = "val_batch"
    /\ trainer.batch_idx <= ValLimit
    /\ LET r == EvalBatch(data_module.val_dataset, trainer.batch_idx)
           last == trainer.batch_idx = ValLimit
       IN /\ opened' = [opened EXCEPT !.raster = @ \cup Reads(r.fetch.files)]
          /\ IF r.raised # NoError
                THEN /\ pc' = "exit"
                     /\ error' = r.raised
                     /\ history' = NoteLookup(history, r.fetch)
                     /\ UNCHANGED <<trainer, model>>
                ELSE /\ error' = error
                     /\ model' = validation_step(model)
                     /\ trainer' =
                          [trainer EXCEPT
                              !.batch = r.fetch.items,
                              !.batch_idx = IF last THEN 0 ELSE @ + 1,
                              !.sanity_checking = IF last THEN FALSE ELSE @]
                     /\ IF ~last
                           THEN /\ pc' = pc
                                /\ history' = history
                        ELSE IF trainer.sanity_checking
                           THEN /\ pc' = "epoch_start"
                                /\ history' = history
                        ELSE IF trainer.fn = "fit"
                           THEN /\ pc' = "val_end"
                                /\ history' = history
                        ELSE /\ pc' = AfterStage("validate")
                             /\ history' = [history EXCEPT
                                               !.ended = Append(@, "validate")]
    /\ UNCHANGED <<args, inputVars, frameVars, statsVars, data_module,
                   weightVars, checkpoint_callback>>

\* The fit loop's test before each epoch: the fit ends once max_epochs epochs
\* have run; otherwise the sampler draws the order of the epoch.
EpochStart ==
    /\ pc = "epoch_start"
    /\ IF trainer.current_epoch >= trainer.max_epochs
          THEN /\ pc' = AfterStage("fit")
               /\ history' = [history EXCEPT !.ended = Append(@, "fit")]
               /\ trainer' = trainer
          ELSE /\ pc' = "train_batch"
               /\ history' = history
               /\ \E order \in Shuffles(Len(data_module.train_dataset.df)) :
                     trainer' = [trainer EXCEPT !.order = order,
                                                !.batch_idx = 1]
    /\ UNCHANGED <<error, args, opened, inputVars, frameVars, statsVars,
                   data_module, weightVars, model, checkpoint_callback>>

\* One training batch: fetch, training_step, backward, optimizer step. The
\* sampler's order is exhausted with the last batch of the epoch.
TrainBatch ==
    /\ pc = "train_batch"
    /\ trainer.batch_idx <= NumBatches(Len(data_module.train_dataset.df))
    /\ LET f == Fetch(data_module.train_dataset,
                      BatchIndices(trainer.order, trainer.batch_idx), <<>>)
           raised == IF f.raised # NoError THEN f.raised
                     ELSE IF ~WeightsFit(model) THEN "RuntimeError"
                     ELSE NoError
           last == trainer.batch_idx =
                       NumBatches(Len(data_module.train_dataset.df))
       IN /\ opened' = [opened EXCEPT !.raster = @ \cup Reads(f.files)]
          /\ IF raised # NoError
                THEN /\ pc' = "exit"
                     /\ error' = raised
                     /\ history' = NoteLookup(history, f)
                     /\ UNCHANGED <<trainer, model>>
                ELSE \E loss \in IF model.embedder.finite
                                    THEN LossValues ELSE {"nan"} :
                     /\ error' = error
                     /\ model' = TrainingUpdate(model, loss)
                     /\ trainer' =
                          [trainer EXCEPT
                              !.batch = f.items,
                              !.global_step = @ + 1,
                              !.order = IF last THEN <<>> ELSE @,
                              !.batch_idx = IF last THEN 1 ELSE @ + 1]
                     /\ history' =
                          [history EXCEPT
                              !.first_bad =
                                  IF @ = 0 /\ loss # "finite"
                                     THEN trainer.global_step + 1 ELSE @,
                              !.train_epochs = IF last THEN @ + 1 ELSE @]
                     /\ pc' = IF last THEN "val_batch" ELSE pc
    /\ UNCHANGED <<args, inputVars, frameVars, statsVars, data_module,
                   weightVars, checkpoint_callback>>

monitor_op_ge(current, best) == current >= best

\* mode="max": torch.gt, a new checkpoint replaces the best one only when
\* its score is strictly greater
monitor_op(current, best) == current > best

\* ModelCheckpoint at the end of an epoch's validation, with save_top_k=1
\* and save_last=True: the top-1 checkpoint, then last.ckpt.
SaveCheckpoints(cb, current, ckpt) ==
    LET top == \/ cb.best_model = NoCheckpoint
               \/ monitor_op(current, cb.best_model_score)
    IN [cb EXCEPT
           !.best_model = IF top THEN ckpt ELSE @,
           !.best_model_score = IF top THEN current ELSE @,
           !.last_model = IF cb.save_last THEN ckpt ELSE @]

\* The end of an epoch's validation: val_acc is logged, the checkpoint
\* callback runs and the epoch counter advances.
ValidationEnd ==
    /\ pc = "val_end"
    /\ \E val_acc \in AccValues :
          /\ checkpoint_callback' =
                SaveCheckpoints(checkpoint_callback, val_acc,
                    [epoch |-> trainer.current_epoch,
                     global_step |-> trainer.global_step,
                     val_acc |-> val_acc,
                     state_dict |-> [embedder |-> model.embedder,
                                     clip_model |-> model.clip_model]])
          /\ history' = [history EXCEPT
                            !.val_accs = Append(@, val_acc),
                            !.epoch_states = Append(@, model.embedder)]
    /\ trainer' = [trainer EXCEPT !.current_epoch = @ + 1]
    /\ pc' = "epoch_start"
    /\ UNCHANGED <<error, args, opened, inputVars, frameVars, statsVars,
                   data_module, weightVars, model>>

\* trainer.validate begins: setup("validate"), then one validation pass.
ValidateStart ==
    /\ pc = "validate"
    /\ data_module' = Setup(data_module)
    /\ history' = [history EXCEPT !.started = Append(@, "validate")]
    /\ trainer' = [trainer EXCEPT !.fn = "validate", !.batch_idx = 1]
    /\ pc' = "val_batch"
    /\ UNCHANGED <<error, args, opened, inputVars, frameVars, statsVars,
                   weightVars, model, checkpoint_callback>>

\* trainer.test begins: setup("test"), then one test pass.
TestStart ==
    /\ pc = "test"
    /\ data_module' = Setup(data_module)
    /\ history' = [history EXCEPT !.started = Append(@, "test")]
    /\ trainer' = [trainer EXCEPT !.fn = "test", !.batch_idx = 1]
    /\ pc' = "test_batch"
    /\ UNCHANGED <<error, args, opened, inputVars, frameVars, statsVars,
                   weightVars, model, checkpoint_callback>>

\* One test batch; after the last one trainer.test returns.
TestBatch ==
    /\ pc = "test_batch"
    /\ trainer.batch_idx <= NumBatches(Len(data_module.test_dataset.df))
    /\ LET r == EvalBatch(data_module.test_dataset, trainer.batch_idx)
           last == trainer.batch_idx =
                       NumBatches(Len(data_module.test_dataset.df))
       IN /\ opened' = [opened EXCEPT !.raster = @ \cup Reads(r.fetch.files)]
          /\ IF r.raised # NoError
                THEN /\ pc' = "exit"
                     /\ error' = r.raised
                     /\ history' = NoteLookup(history, r.fetch)
                     /\ UNCHANGED <<trainer, model>>
                ELSE /\ error' = error
                     /\ model' = validation_step(model)
                     /\ trainer' =
                          [trainer EXCEPT
                              !.batch = r.fetch.items,
                              !.batch_idx = IF last THEN 0 ELSE @ + 1]
                     /\ pc' = IF last THEN AfterStage("test") ELSE pc
                     /\ history' = IF last
                                      THEN [history EXCEPT
                                               !.ended = Append(@, "test")]
                                      ELSE history
    /\ UNCHANGED <<args, inputVars, frameVars, statsVars, data_module,
                   weightVars, checkpoint_callback>>

(***************************************************************************)
(* The state main() is in once the three dataframes are built from the     *)
(* files `f`                                                               *)
(***************************************************************************)
FramesBuilt(a, f) ==
    /\ argv = a
    /\ args = a
    /\ fs = f
    /\ error = NoError
    /\ opened = [json |-> {"default_partition.json", "label_map.json"},
                 raster |-> {}]
    /\ def_partition = f.partition
    /\ label_map = f.label_map
    /\ image_to_label_map = InvertLabelMap(<<>>, f.label_map)
    /\ test_df = BuildRecords(f.partition,
                              InvertLabelMap(<<>>, f.label_map), "test")
    /\ val_df = BuildRecords(f.partition,
                             InvertLabelMap(<<>>, f.label_map), "valid")
    /\ train_df = BuildRecords(f.partition,
                               InvertLabelMap(<<>>, f.label_map), "train")

NoStats ==
    /\ cbs = NoFrame
    /\ stats_calls = 0
    /\ band_stats = NotLoaded
    /\ stats_dict = NotLoaded

NoWeights ==
    /\ data_module = NotLoaded
    /\ class_counts = <<>>
    /\ total = 0
    /\ class_weights = <<>>
    /\ weights_tensor = <<>>

NoTraining ==
    /\ model = NotLoaded
    /\ checkpoint_callback = NotLoaded
    /\ trainer = NotLoaded
    /\ history = NotLoaded

(***************************************************************************)
(* Spec: main() from the command line on, over a few small datasets        *)
(***************************************************************************)
MainPartitions ==
    {[train |-> <<1, 2>>, valid |-> <<3>>, test |-> <<3>>],
     [train |-> <<1, 2>>, valid |-> <<1>>, test |-> <<2, 3>>],
     [train |-> <<1>>, valid |-> <<2>>, test |-> <<3>>]}

MainLabelMaps ==
    {<<[label |-> "0", images |-> <<1, 3>>], [label |-> "1", images |-> <<2>>]>>,
     <<[label |-> "0", images |-> <<1>>], [label |-> "1", images |-> <<2>>]>>}

MainEpochs == {0, 1, 2}

Started(a, f) ==
    /\ pc = "parse_args"
    /\ error = NoError
    /\ argv = a
    /\ args = NotLoaded
    /\ fs = f
    /\ opened = [json |-> {}, raster |-> {}]
    /\ def_partition = NotLoaded
    /\ label_map = NotLoaded
    /\ image_to_label_map = <<>>
    /\ test_df = <<>>
    /\ val_df = <<>>
    /\ train_df = <<>>
    /\ NoStats
    /\ NoWeights
    /\ NoTraining

Init ==
    \E a \in [model : ModelArgs, max_epochs : MainEpochs],
       f \in [partition : MainPartitions, label_map : MainLabelMaps,
              raster : MainDisks] :
        Started(a, f)

Next ==
    \/ ParseArgs
    \/ ReadPartition
    \/ ReadLabelMap
    \/ ReverseLabelMap
    \/ BuildTest
    \/ BuildValid
    \/ BuildTrain
    \/ BandStatsCall
    \/ BandStatsFile
    \/ BandStatsReturn
    \/ MakeStatsDict
    \/ MakeDataModule
    \/ ClassCounts
    \/ ComputeRawWeights
    \/ NormalizeWeights
    \/ MakeWeightsTensor
    \/ CreateModel
    \/ MakeTrainer
    \/ FitStart
    \/ ValBatch
    \/ EpochStart
    \/ TrainBatch
    \/ ValidationEnd
    \/ ValidateStart
    \/ TestStart
    \/ TestBatch

Spec == Init /\ [][Next]_vars

(***************************************************************************)
(* SpecTrain: main() on one sound dataset, for every max_epochs up to      *)
(* MaxEpochs and both embedders                                            *)
(***************************************************************************)
MaxEpochs == 4

SoundFiles ==
    [partition |-> [train |-> <<1, 2>>, valid |-> <<3>>, test |-> <<3, 1>>],
     label_map |-> <<[label |-> "0", images |-> <<1, 3>>],
                     [label |-> "1", images |-> <<2>>]>>,
     raster |-> GoodDisk]

InitTrain ==
    \E a \in [model : {1, 2}, max_epochs : 0..MaxEpochs] :
        Started(a, SoundFiles)

SpecTrain == InitTrain /\ [][Next]_vars

(***************************************************************************)
(* SpecManifest: the manifest builder over every small manifest and label  *)
(* map, from the first read to the last dataframe                          *)
(***************************************************************************)
InitManifest ==
    /\ pc = "read_partition"
    /\ error = NoError
    /\ argv = [model |-> 1, max_epochs |-> 1]
    /\ args = argv
    /\ fs \in [partition : Partitions, label_map : LabelMaps,
               raster : {GoodDisk}]
    /\ opened = [json |-> {}, raster |-> {}]
    /\ def_partition = NotLoaded
    /\ label_map = NotLoaded
    /\ image_to_label_map = <<>>
    /\ test_df = <<>>
    /\ val_df = <<>>
    /\ train_df = <<>>
    /\ NoStats
    /\ NoWeights
    /\ NoTraining

NextManifest ==
    \/ ReadPartition
    \/ ReadLabelMap
    \/ ReverseLabelMap
    \/ BuildTest
    \/ BuildValid
    \/ BuildTrain

SpecManifest == InitManifest /\ [][NextManifest]_vars

\* The ids listed under some label of the label map on disk.
LabelledIds == UNION {Range(fs.label_map[k].images) : k \in DOMAIN fs.label_map}

\* The dataframe of a split follows its manifest list: one record per entry,
\* in order, with no label exactly when the id is in no label-map list.
FollowsManifest(df, split) ==
    /\ Len(df) = Len(fs.partition[split])
    /\ \A i \in 1..Len(df) :
          /\ df[i].image_id = fs.partition[split][i]
          /\ df[i].split = split
          /\ (df[i].label = None) <=> (fs.partition[split][i] \notin LabelledIds)
    /\ (Range(fs.partition[split]) \subseteq LabelledIds
            => \A i \in 1..Len(df) : df[i].label # None)

\* C1: each built dataframe has exactly the records of its split's manifest
\* list, in the same order; an id in no label-map list gets a record with an
\* absent label (it is neither dropped nor an error), and when every id of the
\* split is in the label map no record has an absent label.
C1_RecordsFollowManifest ==
    /\ (pc \in {"build_valid", "build_train", "band_stats"}
            => FollowsManifest(test_df, "test"))
    /\ (pc \in {"build_train", "band_stats"}
            => FollowsManifest(val_df, "valid"))
    /\ (pc = "band_stats" => FollowsManifest(train_df, "train"))

\* All three dataframes are built, the train manifest has MaxLen entries, one
\* of them without a label and one with.
C1_Witness ==
    /\ pc = "band_stats"
    /\ Len(train_df) = MaxLen
    /\ \E i \in 1..Len(train_df) : train_df[i].label = None
    /\ \E i \in 1..Len(train_df) : train_df[i].label # None

(***************************************************************************)
(* SpecStats: compute_band_stats over every small training dataframe and   *)
(* every disk of readable, unreadable and half-readable files              *)
(***************************************************************************)
FullLabelMap ==
    <<[label |-> "0", images |-> <<1>>], [label |-> "1", images |-> <<2>>]>>

InitStats ==
    /\ pc = "band_stats"
    /\ \E f \in [partition : [train : IdLists, valid : {<<1>>}, test : {<<2>>}],
                 label_map : {FullLabelMap},
                 raster : Disks] :
          FramesBuilt([model |-> 1, max_epochs |-> 1], f)
    /\ NoStats
    /\ NoWeights
    /\ NoTraining

NextStats ==
    \/ BandStatsCall
    \/ BandStatsFile
    \/ BandStatsReturn
    \/ MakeStatsDict

SpecStats == InitStats /\ [][NextStats]_vars

\* The files of the dataframe that cannot be read to the end.
Unreadable(df) ==
    {i \in 1..Len(df) : fs.raster[df[i].filename.file].fail_at # NoFailure}

\* C4: a file that fails to open or parse does not abort compute_band_stats
\* (every file of the input is tried and a result is returned), and the
\* result exposes the number of files that were skipped: some column of the
\* returned dataframe, beyond Band, Mean, Std and Pixels, holds it.
C4_SkippedCountInResult ==
    pc = "stats_dict" =>
        /\ cbs.next = Len(cbs.df) + 1
        /\ Len(cbs.printed) = Cardinality(Unreadable(cbs.df))
        /\ \E c \in DOMAIN band_stats \ {"Band", "Mean", "Std", "Pixels"} :
              band_stats[c] = Len(cbs.printed)

\* The accumulators compute_band_stats starts from.
ZeroAcc ==
    [band_sum          |-> [i \in 1..Len(bands) |-> 0],
     band_sq_sum       |-> [i \in 1..Len(bands) |-> 0],
     band_pixel_counts |-> [i \in 1..Len(bands) |-> 0]]

\* The accumulators after the rows 1..i of df, read in order, when only the
\* rows of `rows` are in the input.
RECURSIVE AccumulatedOver(_, _, _)
AccumulatedOver(df, rows, i) ==
    IF i = 0 THEN ZeroAcc
    ELSE LET before == AccumulatedOver(df, rows, i - 1)
         IN IF i \in rows
               THEN ReadFile(before, fs.raster[df[i].filename.file]).acc
               ELSE before

\* The rows whose file is read to its last band.
Readable(df) == (1..Len(df)) \ Unreadable(df)

\* Every readable file of df has bands of one and the same size.
SameBandSize(df) ==
    \A i, j \in Readable(df) :
        \A a \in DOMAIN fs.raster[df[i].filename.file].bands,
           b \in DOMAIN fs.raster[df[j].filename.file].bands :
            Len(fs.raster[df[i].filename.file].bands[a].px)
                = Len(fs.raster[df[j].filename.file].bands[b].px)

\* C12: a file skipped because its reading failed contributes to no band's
\* accumulators, also when the failure comes after some of its bands were
\* read: the sums, sums of squares and pixel counts compute_band_stats ends
\* with, and the Pixels column it returns, are those of a run over the input
\* without the failed files; so when the readable files all have one band
\* size, every band reports the same pixel count.
C12_SkippedFileContributesNothing ==
    pc = "stats_dict" =>
        LET clean == AccumulatedOver(cbs.df, Readable(cbs.df), Len(cbs.df))
        IN /\ cbs.band_sum = clean.band_sum
           /\ cbs.band_sq_sum = clean.band_sq_sum
           /\ cbs.band_pixel_counts = clean.band_pixel_counts
           /\ band_stats.Pixels = clean.band_pixel_counts
           /\ (SameBandSize(cbs.df) =>
                  \A i, j \in DOMAIN band_stats.Pixels :
                      band_stats.Pixels[i] = band_stats.Pixels[j])

\* The same statement for the files that fail at the open, before any band
\* is read.
C12_FailedOpenContributesNothing ==
    (pc = "stats_dict"
        /\ \A i \in Unreadable(cbs.df) :
              fs.raster[cbs.df[i].filename.file].fail_at = 0)
    => LET clean == AccumulatedOver(cbs.df, Readable(cbs.df), Len(cbs.df))
       IN /\ cbs.band_sum = clean.band_sum
          /\ cbs.band_sq_sum = clean.band_sq_sum
          /\ cbs.band_pixel_counts = clean.band_pixel_counts

(***************************************************************************)
(* SpecWeights: from the built dataframes to the weights tensor, over      *)
(* every small pair of class counts and over the counts 800 and 200        *)
(***************************************************************************)
\* the most records of one image id in the training manifest
MaxCount == 3

\* the manifest list of n1 entries of image 1 followed by n2 of image 2
Repeated(n1, n2) == [i \in 1..(n1 + n2) |-> IF i <= n1 THEN 1 ELSE 2]

CountPairs == ((0..MaxCount) \X (0..MaxCount)) \cup {<<800, 200>>}

WeightLabelMaps ==
    {FullLabelMap,
     <<[label |-> "1", images |-> <<1>>], [label |-> "0", images |-> <<2>>]>>,
     <<[label |-> "0", images |-> <<1>>], [label |-> "1", images |-> <<>>]>>}

InitWeights ==
    /\ pc = "band_stats"
    /\ \E n \in CountPairs, lm \in WeightLabelMaps :
          FramesBuilt([model |-> 1, max_epochs |-> 1],
                      [partition |-> [train |-> Repeated(n[1], n[2]),
                                      valid |-> <<1>>, test |-> <<2>>],
                       label_map |-> lm,
                       raster |-> GoodDisk])
    /\ NoStats
    /\ NoWeights
    /\ NoTraining

NextWeights ==
    \/ BandStatsCall
    \/ BandStatsFile
    \/ BandStatsReturn
    \/ MakeStatsDict
    \/ MakeDataModule
    \/ ClassCounts
    \/ ComputeRawWeights
    \/ NormalizeWeights
    \/ MakeWeightsTensor

SpecWeights == InitWeights /\ [][NextWeights]_vars

\* The number of training records of the label with integer id c.
TrainCount(c) == CountLabel(train_df, brickkiln_labels[c + 1])

BothClassesOccur == TrainCount(0) >= 1 /\ TrainCount(1) >= 1

LabelledTotal == TrainCount(0) + TrainCount(1)

\* C5: when both classes occur in the training split: the raw weight of label
\* id c is total/count[c]; the weights tensor has length 2 and holds at
\* position c the normalized weight of label id c, whichever class is the
\* more frequent; weight[0]*count[0] = weight[1]*count[1]; and the two weights
\* sum to 1. For the counts 800 and 200 the raw weights are 1.25 and 5.0 and
\* the normalized weights are in ratio 1:4.
C5_ClassWeights ==
    BothClassesOccur =>
        /\ (pc = "normalize_weights" =>
              /\ \A c \in {0, 1} :
                    Lookup(class_weights, c) = Frac(LabelledTotal, TrainCount(c))
              /\ (TrainCount(0) = 800 /\ TrainCount(1) = 200 =>
                    /\ Lookup(class_weights, 0) = Frac(125, 100)
                    /\ Lookup(class_weights, 1) = Frac(5, 1)))
        /\ (pc = "create_model" =>
              /\ Len(weights_tensor) = 2
              /\ \A c \in {0, 1} :
                    /\ weights_tensor[c + 1] = Lookup(class_weights, c)
                    /\ FracMul(weights_tensor[c + 1], Frac(TrainCount(c), 1))
                          = Frac(TrainCount(0) * TrainCount(1), LabelledTotal)
              /\ FracMul(weights_tensor[1], Frac(TrainCount(0), 1))
                    = FracMul(weights_tensor[2], Frac(TrainCount(1), 1))
              /\ FracAdd(weights_tensor[1], weights_tensor[2]) = <<1, 1>>
              /\ (TrainCount(0) = 800 /\ TrainCount(1) = 200 =>
                    weights_tensor[2] = FracMul(<<4, 1>>, weights_tensor[1])))

\* The tensor is built from 800 records of label 0 and 200 of label 1.
C5_Witness ==
    /\ pc = "create_model"
    /\ TrainCount(0) = 800
    /\ TrainCount(1) = 200
    /\ weights_tensor = <<Frac(1, 5), Frac(4, 5)>>

\* The tensor is built when label 1 is the more frequent class.
C5_WitnessMinority ==
    /\ pc = "create_model"
    /\ TrainCount(1) > TrainCount(0)
    /\ TrainCount(0) >= 1
    /\ Len(weights_tensor) = 2

(***************************************************************************)
(* Properties of the training run (SpecTrain)                              *)
(***************************************************************************)
\* The trainer exists: history, trainer, model and the callback are records.
Training == trainer # NotLoaded

Stages == <<"fit", "validate", "test">>

IsPrefix(s, t) == Len(s) <= Len(t) /\ \A i \in 1..Len(s) : s[i] = t[i]

MaxOf(s) == CHOOSE m \in Range(s) : \A x \in Range(s) : x <= m

\* The first and the last epoch (counted from 1) whose accuracy is the maximum.
FirstBest(accs) ==
    CHOOSE i \in DOMAIN accs :
        accs[i] = MaxOf(accs) /\ \A j \in DOMAIN accs : accs[j] = MaxOf(accs) => i <= j
LastBest(accs) ==
    CHOOSE i \in DOMAIN accs :
        accs[i] = MaxOf(accs) /\ \A j \in DOMAIN accs : accs[j] = MaxOf(accs) => j <= i

\* The saved checkpoint `ckpt` is the one written at the end of epoch i
\* (counted from 1) of a run with the validation accuracies `accs`.
IsCheckpointOf(ckpt, i) ==
    /\ ckpt # NoCheckpoint
    /\ ckpt.epoch = i - 1
    /\ ckpt.val_acc = history.val_accs[i]
    /\ ckpt.state_dict.embedder = history.epoch_states[i]

\* C2 as stated: after the epochs with validation accuracies a_1..a_n the best
\* checkpoint is that of an epoch with the maximum accuracy, the most recent
\* one when several epochs share the maximum, and the last checkpoint is that
\* of epoch n; for 70, 65, 80, 75 the best checkpoint is the third epoch's.
C2_BestIsMostRecentMaximum ==
    (Training /\ history.val_accs # <<>>) =>
        /\ checkpoint_callback.best_model_score = MaxOf(history.val_accs)
        /\ IsCheckpointOf(checkpoint_callback.best_model,
                          LastBest(history.val_accs))
        /\ IsCheckpointOf(checkpoint_callback.last_model, Len(history.val_accs))
        /\ (history.val_accs = <<70, 65, 80, 75>> =>
               checkpoint_callback.best_model.epoch = 2)

\* C2, amended: the best checkpoint is that of the EARLIEST epoch with the
\* maximum accuracy (a later epoch that only equals the best score does not
\* replace it); the last checkpoint is that of epoch n; for 70, 65, 80, 75
\* the best checkpoint is the third epoch's.
C2_BestIsEarliestMaximum ==
    (Training /\ history.val_accs # <<>>) =>
        /\ checkpoint_callback.best_model_score = MaxOf(history.val_accs)
        /\ IsCheckpointOf(checkpoint_callback.best_model,
                          FirstBest(history.val_accs))
        /\ IsCheckpointOf(checkpoint_callback.last_model, Len(history.val_accs))
        /\ (history.val_accs = <<70, 65, 80, 75>> =>
               checkpoint_callback.best_model.epoch = 2)

\* Four epochs in which the maximum is reached twice: the best checkpoint is
\* the second epoch's, the last checkpoint the fourth's.
C2_Witness ==
    /\ Training
    /\ history.val_accs = <<70, 80, 80, 75>>
    /\ checkpoint_callback.best_model.epoch = 1
    /\ checkpoint_callback.last_model.epoch = 3

\* C3: the runs come in the order fit, validate, test, each started once and
\* only after the one before it has ended; fit trains at most max_epochs
\* epochs and every trained epoch has had its validation pass before the next
\* epoch trains or the fit ends; the run is done only after the test.
C3_StageOrder ==
    Training =>
        /\ IsPrefix(history.started, Stages)
        /\ IsPrefix(history.ended, Stages)
        /\ Len(history.ended) <= Len(history.started)
        /\ Len(history.started) <= Len(history.ended) + 1
        /\ history.train_epochs <= trainer.max_epochs
        /\ Len(history.val_accs) <= history.train_epochs
        /\ history.train_epochs <= Len(history.val_accs) + 1
        /\ (pc \in {"train_batch", "epoch_start"} =>
               /\ history.started = <<"fit">>
               /\ history.ended = <<>>
               /\ history.train_epochs = Len(history.val_accs)
               /\ history.train_epochs = trainer.current_epoch)
        /\ (Len(history.ended) >= 1 =>
               history.train_epochs = Len(history.val_accs))
        /\ (pc = "val_batch" /\ trainer.fn = "validate" =>
               history.started = <<"fit", "validate">> /\ history.ended = <<"fit">>)
        /\ (pc = "test_batch" =>
               history.started = Stages /\ history.ended = <<"fit", "validate">>)
        /\ (pc = "done" => history.started = Stages /\ history.ended = Stages)

\* A run of MaxEpochs epochs that is done.
C3_Witness ==
    /\ pc = "done"
    /\ history.train_epochs = MaxEpochs
    /\ Len(history.val_accs) = MaxEpochs
    /\ history.ended = Stages

\* C8: once a training step has produced a NaN or infinite loss, the run has
\* stopped in a failed state: the optimizer step of that batch was not
\* applied, no later batch ran and the run is not done.
C8_NonFiniteLossHalts ==
    (Training /\ history.first_bad # 0) =>
        /\ pc = "exit"
        /\ error # NoError
        /\ trainer.global_step < history.first_bad
        /\ model.embedder.updates < history.first_bad

\* C9: the CLIP parameters and the text features are those of the model's
\* construction, and the embedder has had exactly one update per training
\* step: none from a validation or test batch.
C9_OnlyTrainingMovesTheEmbedder ==
    /\ (model # NotLoaded =>
          /\ model.clip_model = FrozenCLIP
          /\ model.text_features = TextFeatures(class_names))
    /\ (Training => model.embedder.updates = trainer.global_step)
    /\ (model # NotLoaded /\ ~Training => model.embedder = InitEmbedder)

\* A finished run whose embedder was updated in two epochs, each followed by
\* a validation pass.
C9_Witness ==
    /\ pc = "done"
    /\ model.embedder.updates = 2
    /\ Len(history.val_accs) = 2
    /\ model.clip_model = FrozenCLIP

(***************************************************************************)
(* Properties of main() (Spec)                                             *)
(***************************************************************************)
StatsDone ==
    pc \notin {"parse_args", "read_partition", "read_label_map",
               "reverse_label_map", "build_test", "build_valid", "build_train",
               "band_stats", "stats_loop", "stats_dict"}
    /\ stats_calls > 0

\* C6: compute_band_stats is called once, on the training dataframe, and
\* opens no file but those of the training split; the table made from its
\* result stays what it was and is the one every dataset of the data module
\* normalizes with, in the fit, validate and test runs alike.
C6_StatsFromTrainOnly ==
    /\ stats_calls <= 1
    /\ (stats_calls = 1 => cbs.df = train_df)
    /\ \A o \in opened.raster :
          o.by = "compute_band_stats" => o.file \in Range(fs.partition.train)
    /\ (StatsDone =>
          /\ stats_dict = StatsDict(BandStatsFrame(bands, cbs))
          /\ cbs.next = Len(train_df) + 1)
    /\ (data_module # NotLoaded =>
          /\ data_module.band_stats = stats_dict
          /\ \A ds \in {data_module.train_dataset, data_module.val_dataset,
                        data_module.test_dataset} :
                ds # NotLoaded => ds.band_stats = stats_dict)

\* A finished run on a dataset whose validation and test files are not
\* training files: the three datasets of the test run hold the table.
C6_Witness ==
    /\ pc = "done"
    /\ Range(fs.partition.train) \cap
          (Range(fs.partition.valid) \cup Range(fs.partition.test)) = {}
    /\ trainer.global_step >= 1
    /\ data_module.test_dataset.band_stats = stats_dict
    /\ opened.raster # {}

\* C7: a dataset lookup that reaches a record with an absent label raises a
\* configuration error there, before the raster file is opened; it neither
\* returns an item nor fails with an opaque KeyError or IndexError.
C7_AbsentLabelIsConfigurationError ==
    (Training /\ history.lookup # NotLoaded) =>
        /\ history.lookup.raised \notin {NoError, "KeyError", "IndexError"}
        /\ error = history.lookup.raised
        /\ ~history.lookup.opened
        /\ ~history.lookup.returned

\* C10: with a --model other than 1 or 2, or none, the run ends in the
\* argument parser's usage error: neither JSON file and no raster file is
\* opened, nothing is loaded and no model is built.
C10_InvalidSelectorEndsAtParsing ==
    argv.model \notin {1, 2} =>
        /\ pc \in {"parse_args", "exit"}
        /\ (pc = "exit" => error = "SystemExit: usage error")
        /\ opened = [json |-> {}, raster |-> {}]
        /\ def_partition = NotLoaded
        /\ label_map = NotLoaded
        /\ model = NotLoaded
        /\ args = NotLoaded

\* The run with --model 3 has ended.
C10_Witness ==
    /\ argv.model = 3
    /\ pc = "exit"
    /\ error = "SystemExit: usage error"

(***************************************************************************)
(* SpecBands: main() on datasets whose files name or order their bands     *)
(* otherwise than the reference list                                       *)
(***************************************************************************)
\* The file whose f.keys() yields the bands at positions i and j in the
\* other order, each band keeping its name and its pixels.
Swapped(file, i, j) ==
    [file EXCEPT !.bands = [@ EXCEPT ![i] = file.bands[j],
                                     ![j] = file.bands[i]]]

\* The file that stores the band at position i under another name.
Renamed(file, i, name) ==
    [file EXCEPT !.bands = [@ EXCEPT ![i] = [@ EXCEPT !.name = name]]]

\* A raster file as the reference list names it, with two bands in the
\* other order, or with one band under a name the list does not have.
BandVariants(file) ==
    {file, Swapped(file, 1, 2), Renamed(file, 2, "B02")}

BandDisks ==
    {d \in [ImageIds -> UNION {BandVariants(GoodDisk[id]) : id \in ImageIds}] :
        \A id \in ImageIds : d[id] \in BandVariants(GoodDisk[id])}

InitBands ==
    \E a \in [model : {1}, max_epochs : {0, 1}],
       f \in [partition : {SoundFiles.partition},
              label_map : {SoundFiles.label_map},
              raster : BandDisks] :
        Started(a, f)

SpecBands == InitBands /\ [][Next]_vars

\* The item __getitem__ returned has, at every position, every pixel
\* normalized with the mean and std of that position of the statistics pass.
PositionalItem(item) ==
    \A i \in DOMAIN item.item.img :
        \A k \in DOMAIN item.item.img[i] :
            /\ item.item.img[i][k].mean = band_stats.Mean[i]
            /\ item.item.img[i][k].std = band_stats.Std[i]

\* C11: the band stored at position i of a file is normalized with the mean
\* and std compute_band_stats accumulated for position i, whatever names the
\* file gives its bands and in whatever order: every item of a batch the
\* datasets deliver is normalized position by position, it has all the bands
\* of its file, and no lookup of the statistics fails on a band's name (the
\* only KeyError of a dataset is that of a record without a label).
C11_NormalizedByPosition ==
    Training =>
        /\ \A b \in DOMAIN trainer.batch :
              /\ PositionalItem(trainer.batch[b])
              /\ Len(trainer.batch[b].item.img)
                    = Len(fs.raster[trainer.batch[b].file].bands)
        /\ (error = "KeyError" => history.lookup # NotLoaded)

\* The same statement for the files that name and order their bands as the
\* reference list does.
C11_NormalizedByPositionAsNamed ==
    (\A id \in ImageIds : fs.raster[id].bands = GoodDisk[id].bands)
        => C11_NormalizedByPosition

=============================================================================
